---- MODULE Spec2Model ----
(***************************************************************************)
(* A model of src/scrap.py: the PSX market-watch scraper.                  *)
(*                                                                         *)
(* Texts (cell texts, cleaned numeric strings) are sequences of            *)
(* one-character strings, so that the string operations of the code        *)
(* (strip, replace, startswith, float(), str()) are computed and not       *)
(* assumed.  Instants are records [s, u]: whole seconds since Monday       *)
(* 00:00:00 of week 0 in Asia/Karachi (a fixed +05:00 offset, no daylight  *)
(* saving), and microseconds.                                              *)
(***************************************************************************)
EXTENDS Integers, Sequences, FiniteSets, TLC

VARIABLES
    store,      \* table psx_data: the committed rows, in insertion order
    lastSave,   \* the last save_to_postgresql invocation (arguments, faults, outcome)
    probe,      \* a function under test: its name, its input and its result
    now,        \* the wall clock, datetime.now(PAKISTAN_TIMEZONE)
    pc,         \* where schedule_scraper is
    depth,      \* nested calls of run_and_schedule on the stack
    driver,     \* run_scraper's variable driver: "None" or "session"
    sessions,   \* browser sessions created and not yet quit
    scrape_timestamp,   \* run_scraper's variable
    stocks_data,        \* run_scraper's variable
    pending,    \* the exception in flight: "none", "Exception", "KeyboardInterrupt", "RecursionError"
    sleep,      \* the last time.sleep of run_and_schedule: branch, from, until
    run         \* the last call of run_scraper: what it did

vars == <<store, lastSave, probe, now, pc, depth, driver, sessions,
          scrape_timestamp, stocks_data, pending, sleep, run>>

schedVars == <<now, pc, depth, driver, sessions, scrape_timestamp, stocks_data,
               pending, sleep, run>>

(***************************************************************************)
(* Texts                                                                   *)
(***************************************************************************)
DigitChars == <<"0", "1", "2", "3", "4", "5", "6", "7", "8", "9">>

IsDigit(c) == \E i \in 1..10 : DigitChars[i] = c

DigitVal(c) == (CHOOSE i \in 1..10 : DigitChars[i] = c) - 1

Whitespace == {" "}

\* str.lower() on the letters float() looks at
Lower(c) ==
    CASE c = "N" -> "n"
      [] c = "A" -> "a"
      [] c = "I" -> "i"
      [] c = "F" -> "f"
      [] c = "T" -> "t"
      [] c = "Y" -> "y"
      [] OTHER -> c

LowerText(t) == [i \in 1..Len(t) |-> Lower(t[i])]

RECURSIVE LStrip(_)
LStrip(t) ==
    IF t # <<>> /\ t[1] \in Whitespace THEN LStrip(Tail(t)) ELSE t

RECURSIVE RStrip(_)
RStrip(t) ==
    IF t # <<>> /\ t[Len(t)] \in Whitespace
    THEN RStrip(SubSeq(t, 1, Len(t) - 1))
    ELSE t

Strip(t) == RStrip(LStrip(t))

\* str.replace(pat, rep): every non-overlapping occurrence, left to right
RECURSIVE Replace(_, _, _)
Replace(t, pat, rep) ==
    IF Len(t) < Len(pat) THEN t
    ELSE IF SubSeq(t, 1, Len(pat)) = pat
         THEN rep \o Replace(SubSeq(t, Len(pat) + 1, Len(t)), pat, rep)
         ELSE <<t[1]>> \o Replace(Tail(t), pat, rep)

StartsWith(t, pat) == Len(t) >= Len(pat) /\ SubSeq(t, 1, Len(pat)) = pat

\* the decimal digits of a natural number
RECURSIVE NatToText(_)
NatToText(n) ==
    IF n < 10 THEN <<DigitChars[n + 1]>>
    ELSE NatToText(n \div 10) \o <<DigitChars[(n % 10) + 1]>>

RECURSIVE TextToNat(_)
TextToNat(t) ==
    IF t = <<>> THEN 0
    ELSE 10 * TextToNat(SubSeq(t, 1, Len(t) - 1)) + DigitVal(t[Len(t)])

AllDigits(t) == \A i \in 1..Len(t) : IsDigit(t[i])

RECURSIVE DropTrailingZeros(_)
DropTrailingZeros(t) ==
    IF t # <<>> /\ t[Len(t)] = "0"
    THEN DropTrailingZeros(SubSeq(t, 1, Len(t) - 1))
    ELSE t

(***************************************************************************)
(* Python floats, as far as the code uses them: a finite decimal           *)
(* (sign, integer part, fraction digits without trailing zeros), nan,      *)
(* +inf/-inf; "err" is float() raising ValueError.                         *)
(***************************************************************************)
FNum(neg, ip, fp) == [k |-> "num", neg |-> neg, ip |-> ip, fp |-> fp]
FNan == [k |-> "nan", neg |-> FALSE, ip |-> 0, fp |-> <<>>]
FInf(neg) == [k |-> "inf", neg |-> neg, ip |-> 0, fp |-> <<>>]
FErr == [k |-> "err", neg |-> FALSE, ip |-> 0, fp |-> <<>>]

\* position of the first "." of t, 0 when there is none
DotAt(t) ==
    IF \E i \in 1..Len(t) : t[i] = "."
    THEN CHOOSE i \in 1..Len(t) : t[i] = "." /\ \A j \in 1..(i - 1) : t[j] # "."
    ELSE 0

\* float(text): optional sign, then nan / inf / infinity in any case, or
\* digits with at most one "." and at least one digit
FloatOfDigits(neg, ipT, fpT) ==
    IF AllDigits(ipT) /\ AllDigits(fpT) /\ Len(ipT) + Len(fpT) > 0
    THEN FNum(neg, TextToNat(ipT), DropTrailingZeros(fpT))
    ELSE FErr

FloatOfParts(neg, low, body, dot) ==
    IF low = <<"n", "a", "n">> THEN FNan
    ELSE IF low = <<"i", "n", "f">>
            \/ low = <<"i", "n", "f", "i", "n", "i", "t", "y">>
    THEN FInf(neg)
    ELSE FloatOfDigits(neg,
                       IF dot = 0 THEN body ELSE SubSeq(body, 1, dot - 1),
                       IF dot = 0 THEN <<>> ELSE SubSeq(body, dot + 1, Len(body)))

FloatOfBody(neg, body) == FloatOfParts(neg, LowerText(body), body, DotAt(body))

FloatOfStripped(s) ==
    FloatOfBody(s # <<>> /\ s[1] = "-",
                IF s # <<>> /\ s[1] \in {"+", "-"} THEN Tail(s) ELSE s)

ParseFloat(text) == FloatOfStripped(Strip(text))

\* str(float): repr of a float
FloatToStr(v) ==
    CASE v.k = "nan" -> <<"n", "a", "n">>
      [] v.k = "inf" -> (IF v.neg THEN <<"-">> ELSE <<>>) \o <<"i", "n", "f">>
      [] OTHER ->
            (IF v.neg THEN <<"-">> ELSE <<>>)
            \o NatToText(v.ip) \o <<".">>
            \o (IF v.fp = <<>> THEN <<"0">> ELSE v.fp)

\* v <= 0 and v > bound (bound a natural number); every comparison with nan is false
FloatLeZero(v) ==
    CASE v.k = "nan" -> FALSE
      [] v.k = "inf" -> v.neg
      [] OTHER -> v.neg \/ (v.ip = 0 /\ v.fp = <<>>)

FloatGt(v, bound) ==
    CASE v.k = "nan" -> FALSE
      [] v.k = "inf" -> ~v.neg
      [] OTHER -> ~v.neg /\ (v.ip > bound \/ (v.ip = bound /\ v.fp # <<>>))

(***************************************************************************)
(* Record Normalizer                                                       *)
(***************************************************************************)
\* the literal list of clean_numeric_value:
\* ['N/A', '-', '', ' ', 'NAN', 'NULL', 'N/S', 'N.S', 'n/s']
Sentinels ==
    { <<"N", "/", "A">>, <<"-">>, <<>>, <<" ">>, <<"N", "A", "N">>,
      <<"N", "U", "L", "L">>, <<"N", "/", "S">>, <<"N", ".", "S">>,
      <<"n", "/", "s">> }

ZeroText == <<"0">>

\* the chain of replace() calls, in the order of the code; "RUPEE" stands for
\* the one character U+20A8
Markers ==
    << <<",">>, <<" ">>, <<"%">>, <<"(">>, <<")">>, <<"$">>,
       <<"R", "s", ".">>, <<"P", "K", "R">>, <<"RUPEE">> >>

RECURSIVE RemoveMarkers(_, _)
RemoveMarkers(t, i) ==
    IF i > Len(Markers) THEN t
    ELSE RemoveMarkers(Replace(t, Markers[i], <<>>), i + 1)

StripMarkers(t) ==
    Replace(Replace(RemoveMarkers(t, 1), <<"-", "-">>, <<"0">>),
            <<"-", "-", "-">>, <<"0">>)

\* a leading "-" keeps the sign and drops the blanks after it
SignNormalized(cleaned) ==
    IF StartsWith(cleaned, <<"-">>) THEN <<"-">> \o LStrip(Tail(cleaned))
    ELSE cleaned

\* str(float_val) without the handler: the ValueError of float() leaves
FloatTextUncaught(float_val) ==
    IF float_val.k = "err" THEN <<"ValueError">> ELSE FloatToStr(float_val)

\* str(float_val), '0' when float() raised
FloatText(float_val) ==
    IF float_val.k = "err" THEN ZeroText ELSE FloatToStr(float_val)

CleanedText(cleaned) ==
    IF cleaned = <<>> \/ cleaned = <<"-">> THEN ZeroText
    ELSE FloatText(ParseFloat(cleaned))

clean_numeric_value(value) ==
    IF value = <<>> \/ value \in Sentinels THEN ZeroText
    ELSE CleanedText(SignNormalized(StripMarkers(Strip(value))))

MaxSymbolLen == 20
MaxPrice == 100000

\* a validation that accepts every price
PriceAcceptedAlways(current_price) == TRUE

\* current_price <= 0 or current_price > 100000 rejects; float() raising rejects
PriceAccepted(current_price) ==
    IF current_price.k = "err" THEN FALSE
    ELSE IF FloatLeZero(current_price) \/ FloatGt(current_price, MaxPrice)
    THEN FALSE
    ELSE TRUE

validate_stock_data(stock) ==
    IF stock.symbol = <<>> \/ Len(stock.symbol) > MaxSymbolLen THEN FALSE
    ELSE PriceAccepted(ParseFloat(clean_numeric_value(stock.current)))

(***************************************************************************)
(* Persistence Gateway: the row tuple of save_to_postgresql, the column    *)
(* types of psx_data, INSERT ... ON CONFLICT DO NOTHING, the transaction.  *)
(***************************************************************************)
IntZero == FNum(FALSE, 0, <<>>)

\* float(clean_numeric_value(x)) if clean_numeric_value(x) != '0' else 0
DecimalOfCleaned(c) == IF c # ZeroText THEN ParseFloat(c) ELSE IntZero

DecimalField(text) == DecimalOfCleaned(clean_numeric_value(text))

\* int(float(clean_numeric_value(x))) if ... != '0' else 0; int() raises on
\* nan (ValueError) and on inf (OverflowError): ok = FALSE
IntOfFloat(f) ==
    IF f.k # "num" THEN [ok |-> FALSE, v |-> 0]
    ELSE [ok |-> TRUE, v |-> IF f.neg THEN 0 - f.ip ELSE f.ip]

VolumeOfCleaned(c) ==
    IF c = ZeroText THEN [ok |-> TRUE, v |-> 0] ELSE IntOfFloat(ParseFloat(c))

VolumeField(text) == VolumeOfCleaned(clean_numeric_value(text))

NumericFields == {"ldcp", "open", "high", "low", "current", "change", "change_percent"}

\* row_data: ok = FALSE when building the tuple raises
RowTuple(item, timestamp, vol, dec) ==
        [ok |-> vol.ok /\ \A f \in NumericFields : dec[f].k # "err",
         row |-> [scrape_timestamp |-> timestamp,
                  symbol |-> item.symbol,
                  sector |-> item.sector,
                  listed_in |-> item.listed_in,
                  ldcp |-> dec["ldcp"], open |-> dec["open"],
                  high |-> dec["high"], low |-> dec["low"],
                  current |-> dec["current"], change |-> dec["change"],
                  change_percent |-> dec["change_percent"],
                  volume |-> vol.v]]

BuildRow(item, timestamp) ==
    RowTuple(item, timestamp, VolumeField(item.volume),
             [f \in NumericFields |-> DecimalField(item[f])])

\* 10^n
RECURSIVE Pow10(_)
Pow10(n) == IF n = 0 THEN 1 ELSE 10 * Pow10(n - 1)

\* A value of a DECIMAL(p, 2) column: nan, or sign, integer part and cents.
\* The server rounds half away from zero to two decimals; ok = FALSE is
\* "numeric field overflow" (also for an infinite value).
FractionDigit(fp, i) == IF Len(fp) >= i THEN DigitVal(fp[i]) ELSE 0

\* hundredths of the fraction digits, rounded half away from zero (0..100)
RoundedCents(fp) ==
    10 * FractionDigit(fp, 1) + FractionDigit(fp, 2)
    + (IF FractionDigit(fp, 3) >= 5 THEN 1 ELSE 0)

DecimalOf(v, limit, ip, c) ==
    CASE v.k = "nan" -> [ok |-> TRUE, d |-> [k |-> "nan", neg |-> FALSE, ip |-> 0, c |-> 0]]
      [] v.k = "num" /\ v.ip < limit /\ ip < limit ->
            [ok |-> TRUE,
             d |-> [k |-> "num", neg |-> v.neg /\ ~(ip = 0 /\ c = 0), ip |-> ip, c |-> c]]
      [] OTHER -> [ok |-> FALSE, d |-> [k |-> "nan", neg |-> FALSE, ip |-> 0, c |-> 0]]

DecimalRounded(v, limit, c0) ==
    DecimalOf(v, limit, IF c0 = 100 THEN v.ip + 1 ELSE v.ip, IF c0 = 100 THEN 0 ELSE c0)

ToDecimal(v, precision) == DecimalRounded(v, Pow10(precision - 2), RoundedCents(v.fp))

PricePrecision == 10
PercentPrecision == 6

ColumnPrecision(f) == IF f = "change_percent" THEN PercentPrecision ELSE PricePrecision

\* the row as the table's column types hold it; ok = FALSE when the INSERT
\* statement raises for this data
TableRowOf(row, dec) ==
        [ok |-> \A f \in NumericFields : dec[f].ok,
         row |-> [scrape_timestamp |-> row.scrape_timestamp,
                  symbol |-> row.symbol,
                  sector |-> row.sector,
                  listed_in |-> row.listed_in,
                  ldcp |-> dec["ldcp"].d, open |-> dec["open"].d,
                  high |-> dec["high"].d, low |-> dec["low"].d,
                  current |-> dec["current"].d, change |-> dec["change"].d,
                  change_percent |-> dec["change_percent"].d,
                  volume |-> row.volume]]

ToTableRow(row) ==
    TableRowOf(row, [f \in NumericFields |-> ToDecimal(row[f], ColumnPrecision(f))])

\* UNIQUE(scrape_timestamp, symbol)
SameKey(r1, r2) ==
    r1.scrape_timestamp = r2.scrape_timestamp /\ r1.symbol = r2.symbol

HasKey(rows, r) == \E i \in 1..Len(rows) : SameKey(rows[i], r)

\* an INSERT that ignores the key
InsertAlways(committed, inserted, r) == Append(inserted, r)

\* an INSERT that overwrites the row of the same key inserted before it
InsertOnConflictDoUpdate(committed, inserted, r) ==
    IF HasKey(committed, r) THEN inserted
    ELSE IF HasKey(inserted, r)
    THEN [i \in 1..Len(inserted) |-> IF SameKey(inserted[i], r) THEN r ELSE inserted[i]]
    ELSE Append(inserted, r)

\* an INSERT whose conflict target is the symbol alone
InsertOnSymbolConflictDoNothing(committed, inserted, r) ==
    IF \/ \E i \in 1..Len(committed) : committed[i].symbol = r.symbol
       \/ \E i \in 1..Len(inserted) : inserted[i].symbol = r.symbol
    THEN inserted
    ELSE Append(inserted, r)

\* INSERT ... ON CONFLICT (scrape_timestamp, symbol) DO NOTHING, against the
\* committed rows and the rows this transaction has inserted
InsertOnConflictDoNothing(committed, inserted, r) ==
    IF HasKey(committed, r) \/ HasKey(inserted, r) THEN inserted
    ELSE Append(inserted, r)

(***************************************************************************)
(* Sample data                                                             *)
(***************************************************************************)
Instant(s, u) == [s |-> s, u |-> u]

Raw(symbol, current, volume, ldcp) ==
    [symbol |-> symbol, sector |-> <<"B", "a", "n", "k">>, listed_in |-> <<"K", "S", "E">>,
     ldcp |-> ldcp, open |-> <<"9", "9">>, high |-> <<"1", "0", "1", ".", "2", "5">>,
     low |-> <<"-">>, current |-> current, change |-> <<"-", "0", ".", "5">>,
     change_percent |-> <<"(", "0", ".", "5", "%", ")">>, volume |-> volume]

Txt100 == <<"1", "0", "0">>
Txt250p5 == <<"2", "5", "0", ".", "5">>
SymAAA == <<"A", "A", "A">>
SymBBB == <<"B", "B", "B">>
SymCCC == <<"C", "C", "C">>
SymLong == [i \in 1..(MaxSymbolLen + 1) |-> "X"]

RecAAA == Raw(SymAAA, Txt100, <<"1", ",", "5", "0", "0">>, <<"9", "9", ".", "5">>)
RecAAAb == Raw(SymAAA, Txt250p5, <<"7">>, Txt100)
RecBBB == Raw(SymBBB, Txt250p5, <<"-", "5">>, <<"R", "s", ".", "2", "5", "0", ".", "0", "0">>)
RecCCC == Raw(SymCCC, <<"0">>, <<"3">>, Txt100)
RecNaN == Raw(<<"N", "N">>, <<"n", "a", "n">>, <<"1", "0">>, Txt100)
RecNaNUpper == Raw(<<"N", "U">>, <<"N", "a", "N">>, <<"1", "0">>, Txt100)
RecSentinel == Raw(<<"N", "S">>, <<"N", "A", "N">>, <<"1", "0">>, Txt100)
RecInf == Raw(<<"I", "I">>, <<"i", "n", "f">>, <<"1", "0">>, Txt100)
RecVolNaN == Raw(<<"V", "V">>, Txt100, <<"n", "a", "n">>, Txt100)
RecOverflow == Raw(<<"O", "O">>, Txt100, <<"1">>, <<"1", "0", "0", "0", "0", "0", "0", "0", "0">>)
RecTiny == Raw(<<"T", "T">>, <<"0", ".", "0", "0", "1">>, <<"1">>, Txt100)
RecMax == Raw(<<"M", "M">>, <<"1", "0", "0", ",", "0", "0", "0">>, <<"1">>, Txt100)
RecOver == Raw(<<"M", "O">>, <<"1", "0", "0", "0", "0", "0", ".", "5">>, <<"1">>, Txt100)
RecNeg == Raw(<<"N", "G">>, <<"-", "5">>, <<"1">>, Txt100)
RecLong == Raw(SymLong, Txt100, <<"1">>, Txt100)
RecEmpty == Raw(<<>>, Txt100, <<"1">>, Txt100)

SampleRecords ==
    {RecAAA, RecAAAb, RecBBB, RecCCC, RecNaN, RecNaNUpper, RecSentinel, RecInf,
     RecVolNaN, RecOverflow, RecTiny, RecMax, RecOver, RecNeg, RecLong, RecEmpty}

\* What the loop body computes from one item alone: the validation, whether
\* building row_data raises, and the row as the table would hold it.
NormalizedTyped(valid, built, typed) ==
    [valid |-> valid, built |-> built.ok, typed |-> typed.ok, row |-> typed.row]

NormalizedBuilt(valid, built) == NormalizedTyped(valid, built, ToTableRow(built.row))

NormalizedItem(item) ==
    NormalizedBuilt(validate_stock_data(item), BuildRow(item, [s |-> 0, u |-> 0]))

(***************************************************************************)
(* Window Scheduler: the clock arithmetic                                  *)
(***************************************************************************)
SCRAPE_INTERVAL_MINUTES == 5
OpenHour == 9
OpenMinute == 30
CloseHour == 15
CloseMinute == 30

SecondsPerMinute == 60
SecondsPerDay == 86400

\* datetime comparison
Before(a, b) == a.s < b.s \/ (a.s = b.s /\ a.u < b.u)
NotAfter(a, b) == a = b \/ Before(a, b)

\* a + timedelta(seconds = n)
PlusSeconds(a, n) == [s |-> a.s + n, u |-> a.u]

\* datetime.weekday(): Monday is 0
Weekday(a) == (a.s \div SecondsPerDay) % 7

MinuteOfHour(a) == (a.s \div SecondsPerMinute) % 60

SecondOfMinute(a) == a.s % SecondsPerMinute

\* a.replace(hour = h, minute = m, second = 0, microsecond = 0)
AtTimeOfDay(a, h, m) ==
    [s |-> (a.s - (a.s % SecondsPerDay)) + (h * 60 + m) * SecondsPerMinute, u |-> 0]

\* a.replace(second = 0, microsecond = 0)
TruncateToMinute(a) == [s |-> a.s - (a.s % SecondsPerMinute), u |-> 0]

\* an is_market_open without the weekday test
is_market_open_any_day(now_pk) ==
    /\ NotAfter(AtTimeOfDay(now_pk, OpenHour, OpenMinute), now_pk)
    /\ NotAfter(now_pk, AtTimeOfDay(now_pk, CloseHour, CloseMinute))

\* is_market_open() when datetime.now(PAKISTAN_TIMEZONE) is now_pk
is_market_open(now_pk) ==
    IF Weekday(now_pk) >= 5 THEN FALSE
    ELSE LET market_open == AtTimeOfDay(now_pk, OpenHour, OpenMinute)
             market_close == AtTimeOfDay(now_pk, CloseHour, CloseMinute)
         IN  NotAfter(market_open, now_pk) /\ NotAfter(now_pk, market_close)

\* minutes_to_add without the "if minutes_to_add == 0" correction
MinutesToAddUncorrected(now_pk) ==
    (SCRAPE_INTERVAL_MINUTES - (MinuteOfHour(now_pk) % SCRAPE_INTERVAL_MINUTES))
        % SCRAPE_INTERVAL_MINUTES

MinutesToAdd(now_pk) ==
    LET minutes_to_add == MinutesToAddUncorrected(now_pk)
    IN  IF minutes_to_add = 0 THEN SCRAPE_INTERVAL_MINUTES ELSE minutes_to_add

\* get_next_scrape_time() when datetime.now(PAKISTAN_TIMEZONE) is now_pk
get_next_scrape_time(now_pk) ==
    TruncateToMinute(PlusSeconds(now_pk, MinutesToAdd(now_pk) * SecondsPerMinute))

\* "while tomorrow.weekday() >= 5: tomorrow += timedelta(days=1)"
RECURSIVE SkipWeekend(_)
SkipWeekend(day) ==
    IF Weekday(day) >= 5 THEN SkipWeekend(PlusSeconds(day, SecondsPerDay)) ELSE day

\* a next_open that keeps the time of day of now_pk
NextMarketOpenSameTime(now_pk) == SkipWeekend(PlusSeconds(now_pk, SecondsPerDay))

\* next_open of the closed branch of run_and_schedule
NextMarketOpen(now_pk) ==
    LET tomorrow == SkipWeekend(PlusSeconds(now_pk, SecondsPerDay))
    IN  AtTimeOfDay(tomorrow, OpenHour, OpenMinute)

(***************************************************************************)
(* Extraction Chain.  A page is a sequence of tables in document order; a  *)
(* table has its th texts, whether it has a tbody, and its tr rows in      *)
(* document order, each with the texts of its td cells and whether it lies *)
(* in the tbody.                                                           *)
(***************************************************************************)
Contains(t, pat) ==
    \E i \in 1..(Len(t) - Len(pat) + 1) : SubSeq(t, i, i + Len(pat) - 1) = pat

\* Array.join(' ')
RECURSIVE JoinSpace(_)
JoinSpace(texts) ==
    IF texts = <<>> THEN <<>>
    ELSE IF Len(texts) = 1 THEN texts[1]
    ELSE texts[1] \o <<" ">> \o JoinSpace(Tail(texts))

KwSymbol == <<"S", "y", "m", "b", "o", "l">>
KwSector == <<"S", "e", "c", "t", "o", "r">>
KwLDCP == <<"L", "D", "C", "P">>
KwLast == <<"L", "a", "s", "t">>
KwOpen == <<"O", "p", "e", "n">>
KwHigh == <<"H", "i", "g", "h">>
KwLow == <<"L", "o", "w">>
KwCurrent == <<"C", "u", "r", "r", "e", "n", "t">>
KwChange == <<"C", "h", "a", "n", "g", "e">>
KwVolume == <<"V", "o", "l", "u", "m", "e">>
KwPSX == <<"P", "S", "X">>
KwKSE == <<"K", "S", "E">>
KwKSE100 == <<"K", "S", "E", "-", "1", "0", "0">>

MinHeaderCells == 10
MinRowCells == 9

\* the script's choice of targetTable: 0 when the page has no table
IsHeaderTable(table) ==
    /\ Len(table.th) >= MinHeaderCells
    /\ LET headerText == JoinSpace([i \in 1..Len(table.th) |-> Strip(table.th[i])])
       IN  \/ Contains(headerText, KwSymbol)
           \/ Contains(headerText, KwSector)
           \/ Contains(headerText, KwLDCP)

TargetTable(page) ==
    IF \E i \in 1..Len(page) : IsHeaderTable(page[i])
    THEN CHOOSE i \in 1..Len(page) :
            IsHeaderTable(page[i]) /\ \A j \in 1..(i - 1) : ~IsHeaderTable(page[j])
    ELSE IF Len(page) > 0 THEN 1 ELSE 0

\* the row filter of the script, on the trimmed text of the first cell
ScriptSkipsSymbol(symbol) ==
    \/ symbol = <<>>
    \/ Len(symbol) > MaxSymbolLen
    \/ Contains(symbol, KwSymbol) \/ Contains(symbol, KwLast)
    \/ symbol = KwPSX \/ symbol = KwKSE100
    \/ Contains(symbol, KwOpen) \/ Contains(symbol, KwHigh)
    \/ Contains(symbol, KwLow) \/ Contains(symbol, KwVolume)

\* the row filter of the manual strategy
ManualSkipsSymbol(symbol) ==
    \/ symbol = <<>>
    \/ Len(symbol) > MaxSymbolLen
    \/ \E keyword \in {KwSymbol, KwLast, KwOpen, KwHigh, KwLow, KwCurrent,
                       KwChange, KwVolume} : Contains(symbol, keyword)
    \/ Contains(symbol, KwPSX)
    \/ Contains(symbol, KwKSE)

\* cells[i]?.innerText.trim() || dflt   (i counted from 0)
ScriptCell(cells, i, dflt) ==
    IF i + 1 <= Len(cells) /\ Strip(cells[i + 1]) # <<>>
    THEN Strip(cells[i + 1])
    ELSE dflt

\* cells[i].text.strip() if len(cells) > i else dflt
ManualCell(cells, i, dflt) ==
    IF Len(cells) > i THEN Strip(cells[i + 1]) ELSE dflt

ScriptRecord(cells) ==
    [symbol |-> ScriptCell(cells, 0, <<>>),
     sector |-> ScriptCell(cells, 1, <<>>),
     listed_in |-> ScriptCell(cells, 2, <<>>),
     ldcp |-> ScriptCell(cells, 3, ZeroText),
     open |-> ScriptCell(cells, 4, ZeroText),
     high |-> ScriptCell(cells, 5, ZeroText),
     low |-> ScriptCell(cells, 6, ZeroText),
     current |-> ScriptCell(cells, 7, ZeroText),
     change |-> ScriptCell(cells, 8, ZeroText),
     change_percent |-> ScriptCell(cells, 9, ZeroText),
     volume |-> ScriptCell(cells, 10, ZeroText)]

ManualRecord(cells) ==
    [symbol |-> Strip(cells[1]),
     sector |-> ManualCell(cells, 1, <<>>),
     listed_in |-> ManualCell(cells, 2, <<>>),
     ldcp |-> ManualCell(cells, 3, ZeroText),
     open |-> ManualCell(cells, 4, ZeroText),
     high |-> ManualCell(cells, 5, ZeroText),
     low |-> ManualCell(cells, 6, ZeroText),
     current |-> ManualCell(cells, 7, ZeroText),
     change |-> ManualCell(cells, 8, ZeroText),
     change_percent |-> ManualCell(cells, 9, ZeroText),
     volume |-> ManualCell(cells, 10, ZeroText)]

ScriptKeepsRow(cells) ==
    Len(cells) >= MinRowCells /\ ~ScriptSkipsSymbol(ScriptCell(cells, 0, <<>>))

ManualKeepsRow(cells) ==
    ~(Len(cells) < MinRowCells) /\ ~ManualSkipsSymbol(Strip(cells[1]))

\* rows.forEach of the script over the tbody rows of the table
RECURSIVE ScriptRows(_, _)
ScriptRows(rows, i) ==
    IF i > Len(rows) THEN <<>>
    ELSE (IF rows[i].body /\ ScriptKeepsRow(rows[i].td)
          THEN <<ScriptRecord(rows[i].td)>> ELSE <<>>)
         \o ScriptRows(rows, i + 1)

\* what extract_script returns on the page
ScriptResultOf(page, targetTable) ==
    IF targetTable = 0 THEN <<>>
    ELSE IF ~page[targetTable].tbody THEN <<>>
    ELSE ScriptRows(page[targetTable].rows, 1)

ScriptResult(page) == ScriptResultOf(page, TargetTable(page))

\* "for row in rows" of extract_manual_complete; a row in stale raises when
\* it is accessed and is skipped (except Exception: continue)
RECURSIVE ManualRows(_, _, _)
ManualRows(rows, stale, i) ==
    IF i > Len(rows) THEN <<>>
    ELSE (IF i \notin stale /\ ManualKeepsRow(rows[i].td)
          THEN <<ManualRecord(rows[i].td)>> ELSE <<>>)
         \o ManualRows(rows, stale, i + 1)

\* The outcome of a call: raised (an exception leaves it), none (it returns
\* None), value (the sequence it returns), and for the chain: secondary (how
\* often the manual strategy ran), secondaryFailed (its body raised),
\* primary ("raised", "empty", "records": how the script strategy ended).
Returned(value) ==
    [raised |-> FALSE, none |-> FALSE, value |-> value, secondary |-> 0,
     secondaryFailed |-> FALSE, primary |-> "none"]

Raised ==
    [raised |-> TRUE, none |-> FALSE, value |-> <<>>, secondary |-> 0,
     secondaryFailed |-> FALSE, primary |-> "none"]

ReturnedNone == [Returned(<<>>) EXCEPT !.none = TRUE]

\* The body of the try of extract_manual_complete.  fault.wait2: the wait
\* for a table times out although the page has one; fault.rows: find_elements
\* raises; fault.stale: the rows whose access raises.
ManualBody(page, fault) ==
    IF Len(page) = 0 \/ fault.wait2 \/ fault.rows THEN Raised
    ELSE Returned(ManualRows(page[1].rows, fault.stale, 1))

\* extract_manual_complete(driver): "except Exception: return []"
ManualCaught(body) ==
    IF body.raised
    THEN [Returned(<<>>) EXCEPT !.secondary = 1, !.secondaryFailed = TRUE]
    ELSE [body EXCEPT !.secondary = 1]

\* the manual strategy without its outer handler
extract_manual_uncaught(page, fault) ==
    [ManualBody(page, fault) EXCEPT !.secondary = 1]

extract_manual_complete(page, fault) == ManualCaught(ManualBody(page, fault))

\* The body of the try of extract_correct_psx_data up to execute_script.
\* fault.get: driver.get raises; fault.wait1: the wait for a table times out;
\* fault.script: execute_script "raise"s, returns "null", or is "ok".
ScriptBody(page, fault) ==
    IF fault.get \/ Len(page) = 0 \/ fault.wait1 \/ fault.script = "raise" THEN Raised
    ELSE IF fault.script = "null" THEN ReturnedNone
    ELSE Returned(ScriptResult(page))

\* extract_correct_psx_data(driver): the fallback of line 219 runs inside the
\* try, so an exception leaving it would reach the handler of line 226, which
\* calls the manual strategy once more
PrimaryOutcome(raw_data) ==
    IF raw_data.raised THEN "raised"
    ELSE IF raw_data.none \/ Len(raw_data.value) = 0 THEN "empty"
    ELSE "records"

\* a try block that returns the script's result whatever it is
InTryNoFallback(primary, raw_data, manual) ==
    IF primary = "raised" THEN Raised ELSE raw_data

\* what the try block ends with: "if not raw_data ... return extract_manual_complete"
InTry(primary, raw_data, manual) ==
    IF primary = "raised" THEN Raised
    ELSE IF primary = "empty" THEN manual
    ELSE raw_data

\* "except Exception: return extract_manual_complete(driver)"
ChainReturn(primary, inTry, manual) ==
    IF inTry.raised
    THEN [manual EXCEPT !.primary = primary,
                        !.secondary = inTry.secondary + manual.secondary]
    ELSE [inTry EXCEPT !.primary = primary]

ChainOutcome(primary, raw_data, manual) ==
    ChainReturn(primary, InTry(primary, raw_data, manual), manual)

ChainOf(raw_data, manual) == ChainOutcome(PrimaryOutcome(raw_data), raw_data, manual)

extract_correct_psx_data(page, fault) ==
    ChainOf(ScriptBody(page, fault), extract_manual_complete(page, fault))

\* sample pages
CellsOf(raw) ==
    <<raw.symbol, raw.sector, raw.listed_in, raw.ldcp, raw.open, raw.high,
      raw.low, raw.current, raw.change, raw.change_percent, raw.volume>>

\* a tr with the first n cells of the record, padded by blanks as the page shows them
RowOf(raw, n, body) ==
    [body |-> body,
     td |-> [i \in 1..n |-> <<" ">> \o CellsOf(raw)[i] \o <<" ">>]]

HeaderRow == [body |-> FALSE, td |-> <<>>]

MarketHeaders ==
    <<<<"S", "Y", "M">>, <<"S", "E", "C">>, <<"L", "I", "S", "T">>, KwLDCP,
      <<"O">>, <<"H">>, <<"L">>, <<"C", "U", "R">>, <<"C", "H", "G">>,
      <<"P", "C", "T">>, <<"V", "O", "L">>>>

RecIndex == Raw(KwKSE100, Txt100, <<"1">>, Txt100)
RecPSX == Raw(KwPSX, Txt100, <<"1">>, Txt100)
RecKSE30 == Raw(<<"K", "S", "E", "3", "0">>, Txt100, <<"1">>, Txt100)

MarketTable ==
    [th |-> MarketHeaders, tbody |-> TRUE,
     rows |-> <<HeaderRow, RowOf(RecAAA, 11, TRUE), RowOf(RecBBB, 11, TRUE),
                RowOf(RecCCC, 11, TRUE)>>]

\* the rows are not in a tbody
HeadOnlyTable ==
    [th |-> MarketHeaders, tbody |-> FALSE,
     rows |-> <<RowOf(RecAAA, 11, FALSE), RowOf(RecBBB, 11, FALSE),
                RowOf(RecCCC, 11, FALSE)>>]

IndexTable ==
    [th |-> <<<<"I", "N", "D", "E", "X">>>>, tbody |-> TRUE,
     rows |-> <<RowOf(RecIndex, 9, TRUE)>>]

NoisyTable ==
    [th |-> <<>>, tbody |-> TRUE,
     rows |-> <<RowOf(RecNaN, 11, TRUE), RowOf(RecBBB, 8, TRUE),
                RowOf(RecAAAb, 9, TRUE), RowOf(RecPSX, 11, TRUE),
                RowOf(RecKSE30, 11, TRUE), RowOf(RecLong, 11, TRUE),
                RowOf(RecAAA, 11, TRUE), RowOf(RecVolNaN, 10, TRUE)>>]

PageMarket == <<MarketTable>>
PageBlank == <<>>
PageHeadOnly == <<HeadOnlyTable>>
PageTwoTables == <<IndexTable, MarketTable>>
PageNoisy == <<NoisyTable>>

Pages == {PageMarket, PageBlank, PageHeadOnly, PageTwoTables, PageNoisy}

NoExtractFault ==
    [get |-> FALSE, wait1 |-> FALSE, script |-> "ok", wait2 |-> FALSE,
     rows |-> FALSE, stale |-> {}]

\* the failures of the rendering engine the model injects into one extraction
ExtractFaults ==
    [get : BOOLEAN, wait1 : BOOLEAN, script : {"ok", "raise", "null"},
     wait2 : BOOLEAN, rows : BOOLEAN, stale : {{}, {2}}]

(***************************************************************************)
(* The write loop of save_to_postgresql                                    *)
(***************************************************************************)
\* every record the sample data and the sample pages can yield
KnownRecords ==
    SampleRecords
    \cup UNION { { ScriptRecord(page[t].rows[i].td), ManualRecord(page[t].rows[i].td) } :
                 <<page, t, i>> \in
                    { <<pg, tt, ii>> \in Pages \X (1..2) \X (1..8) :
                        /\ tt <= Len(pg)
                        /\ ii <= Len(pg[tt].rows)
                        /\ Len(pg[tt].rows[ii].td) >= MinRowCells } }

\* NormalizedItem of the known records, computed once
NormalizedKnown == [item \in KnownRecords |-> NormalizedItem(item)]

Normalize(item) ==
    IF item \in KnownRecords THEN NormalizedKnown[item] ELSE NormalizedItem(item)

\* One iteration of "for item in stocks_data".  tx is the open transaction:
\* pending (rows inserted, not yet committed), aborted (a statement has
\* failed: PostgreSQL refuses every later statement of the transaction and
\* turns its COMMIT into a ROLLBACK), saved_count, and whether building a row
\* or executing an INSERT has raised.  injected: the server or the connection
\* fails this INSERT.  Both exceptions are caught per item (continue).
ProcessNormalized(committed, n, timestamp, injected, tx) ==
    IF ~n.valid THEN tx
    ELSE IF ~n.built THEN [tx EXCEPT !.buildFailed = TRUE]
    ELSE IF tx.aborted \/ injected \/ ~n.typed
    THEN [tx EXCEPT !.aborted = TRUE, !.insertFailed = TRUE]
    ELSE [tx EXCEPT
            !.pending = InsertOnConflictDoNothing(
                            committed, tx.pending,
                            [n.row EXCEPT !.scrape_timestamp = timestamp]),
            !.saved_count = tx.saved_count + 1]

ProcessItem(committed, item, timestamp, injected, tx) ==
    ProcessNormalized(committed, Normalize(item), timestamp, injected, tx)

RECURSIVE InsertLoop(_, _, _, _, _, _)
InsertLoop(committed, items, timestamp, fault, i, tx) ==
    IF i > Len(items) THEN tx
    ELSE InsertLoop(committed, items, timestamp, fault, i + 1,
                    ProcessItem(committed, items[i], timestamp,
                                fault.insertAt = i, tx))

NewTransaction ==
    [pending |-> <<>>, aborted |-> FALSE, saved_count |-> 0,
     buildFailed |-> FALSE, insertFailed |-> FALSE]

RowsOfRun(rows, timestamp) ==
    {i \in 1..Len(rows) : rows[i].scrape_timestamp = timestamp}

\* save_to_postgresql(stocks_data, scrape_timestamp) on the committed rows.
\* fault: connect (psycopg2.connect raises), insertAt (the INSERT of that item
\* raises, 0: none), commit (conn.commit raises), rollback (conn.rollback
\* raises in the handler).  ret is "True", "False" or "raise" (an exception
\* leaves the function); failed: some step of writing the batch raised.
\* The summary after the commit formats SUM(volume), which is NULL when the
\* run has no row: that raises and the function returns False.
SaveResult(tx, st, ret, connected, commitFailed) ==
    [store |-> st, ret |-> ret,
     saved_count |-> IF connected THEN tx.saved_count ELSE 0,
     buildFailed |-> connected /\ tx.buildFailed,
     insertFailed |-> connected /\ tx.insertFailed,
     commitFailed |-> commitFailed]

\* conn.commit() on the transaction tx
Committed(committed, tx) ==
    IF tx.aborted THEN committed ELSE committed \o tx.pending

SaveOutcome(committed, items, timestamp, fault, tx, after) ==
    IF items = <<>> THEN SaveResult(tx, committed, "False", FALSE, FALSE)
    ELSE IF fault.connect THEN SaveResult(tx, committed, "False", FALSE, FALSE)
    ELSE IF fault.commit
    THEN SaveResult(tx, committed, IF fault.rollback THEN "raise" ELSE "False",
                    TRUE, TRUE)
    ELSE IF tx.saved_count > 0 /\ RowsOfRun(after, timestamp) = {}
    THEN SaveResult(tx, after, "False", TRUE, FALSE)
    ELSE SaveResult(tx, after, "True", TRUE, FALSE)

SaveTransaction(committed, items, timestamp, fault, tx) ==
    SaveOutcome(committed, items, timestamp, fault, tx, Committed(committed, tx))

save_to_postgresql(committed, items, timestamp, fault) ==
    SaveTransaction(committed, items, timestamp, fault,
                    InsertLoop(committed, items, timestamp, fault, 1, NewTransaction))

NoFault == [connect |-> FALSE, insertAt |-> 0, commit |-> FALSE, rollback |-> FALSE]

\* the failures of the store the model injects into one invocation
SaveFaults(items) ==
    {NoFault,
     [NoFault EXCEPT !.connect = TRUE],
     [NoFault EXCEPT !.commit = TRUE],
     [NoFault EXCEPT !.commit = TRUE, !.rollback = TRUE]}
    \cup {[NoFault EXCEPT !.insertAt = i] : i \in 1..Len(items)}

\* the batches save_to_postgresql is called with under SpecSave
SaveBatches ==
    { <<>>,
      <<RecAAA>>,
      <<RecAAAb>>,
      <<RecAAA, RecBBB>>,
      <<RecAAA, RecBBB, RecCCC>>,
      <<RecAAA, RecAAAb>>,
      <<RecNaN, RecNaNUpper, RecSentinel>>,
      <<RecAAA, RecVolNaN>>,
      <<RecAAA, RecOverflow, RecBBB>>,
      <<RecInf, RecTiny, RecMax>>,
      <<RecOver, RecNeg, RecBBB>>,
      <<RecLong, RecEmpty, RecBBB>> }

SaveTimestamps == {Instant(36000, 0), Instant(36300, 250000)}

(***************************************************************************)
(* SpecSave: save_to_postgresql called on the store, with any batch, any   *)
(* of the timestamps and any injected failure.                             *)
(***************************************************************************)
MaxCalls == 2

NoSave ==
    [n |-> 0, scrape_timestamp |-> Instant(0, 0), stocks_data |-> <<>>,
     fault |-> NoFault, ret |-> "none", saved_count |-> 0,
     buildFailed |-> FALSE, insertFailed |-> FALSE, commitFailed |-> FALSE,
     before |-> <<>>, repeats |-> FALSE, prevRet |-> "none"]

\* the record of one invocation; repeats: the invocation before it had the
\* same arguments and no injected failure
SaveRecord(prev, committed, items, timestamp, fault, r) ==
    [n |-> prev.n + 1, scrape_timestamp |-> timestamp,
     stocks_data |-> items, fault |-> fault, ret |-> r.ret,
     saved_count |-> r.saved_count, buildFailed |-> r.buildFailed,
     insertFailed |-> r.insertFailed, commitFailed |-> r.commitFailed,
     before |-> committed,
     repeats |-> /\ prev.n > 0
                 /\ prev.fault = NoFault
                 /\ prev.stocks_data = items
                 /\ prev.scrape_timestamp = timestamp,
     prevRet |-> prev.ret]

NoProbe == [op |-> "none", in |-> <<>>, out |-> <<>>]

NoSleep ==
    [branch |-> "none", from |-> Instant(0, 0), target |-> Instant(0, 0),
     until |-> Instant(0, 0)]

NoRun ==
    [n |-> 0, startedAt |-> Instant(0, 0), window |-> "none", acquired |-> 0,
     extracts |-> 0, saves |-> 0, outcome |-> "none", storeBefore |-> <<>>,
     primary |-> "none", secondary |-> 0]

\* the scheduler's variables before schedule_scraper starts
SchedulerIdle ==
    /\ now = Instant(0, 0)
    /\ pc = "boot"
    /\ depth = 0
    /\ driver = "None"
    /\ sessions = 0
    /\ scrape_timestamp = Instant(0, 0)
    /\ stocks_data = <<>>
    /\ pending = "none"
    /\ sleep = NoSleep
    /\ run = NoRun

InitSave ==
    /\ store = <<>>
    /\ lastSave = NoSave
    /\ probe = NoProbe
    /\ SchedulerIdle

SaveCall ==
    /\ lastSave.n < MaxCalls
    /\ \E batch \in SaveBatches, ts \in SaveTimestamps :
         \E fault \in SaveFaults(batch) :
            \E r \in {save_to_postgresql(store, batch, ts, fault)} :
                /\ store' = r.store
                /\ lastSave' = SaveRecord(lastSave, store, batch, ts, fault, r)
                /\ UNCHANGED <<probe, schedVars>>

NextSave == SaveCall

SpecSave == InitSave /\ [][NextSave]_vars


(***************************************************************************)
(* Spec: schedule_scraper.  The clock advances while the page is loaded    *)
(* and extracted, while the process is held up between two readings of the *)
(* clock, and while it sleeps.                                             *)
(***************************************************************************)
RecursionLimit == 3      \* the interpreter's limit on nested calls, scaled down

\* seconds on a Monday-based week clock
At(day, hour, minute, second, micro) ==
    Instant(day * SecondsPerDay + (hour * 60 + minute) * SecondsPerMinute + second, micro)

\* the instants at which the process may be started
StartInstants ==
    { At(0, 8, 0, 0, 0),            \* Monday 08:00, before the window
      At(0, 10, 0, 0, 0),           \* Monday 10:00, on a boundary
      At(2, 12, 2, 30, 500000),     \* Wednesday 12:02:30.5
      At(4, 15, 27, 10, 0),         \* Friday 15:27:10, the window closes soon
      At(4, 16, 0, 0, 0),           \* Friday 16:00, closed for the day
      At(5, 11, 0, 0, 0),           \* Saturday 11:00
      At(6, 23, 59, 59, 999999) }   \* Sunday, the last microsecond

\* how long one extraction may take, in seconds
ExtractSeconds == {30}

\* how long the process may be held up between get_next_scrape_time() and
\* the next datetime.now(), in seconds
StallSeconds == {0, 301}

SchedPages == {PageBlank, PageHeadOnly, PageNoisy}

\* the browser works, or the page does not load and no table appears
SchedExtractFaults ==
    {NoExtractFault,
     [NoExtractFault EXCEPT !.get = TRUE, !.wait2 = TRUE]}

SchedSaveFaults(items) ==
    {NoFault,
     [NoFault EXCEPT !.connect = TRUE],
     [NoFault EXCEPT !.commit = TRUE, !.rollback = TRUE]}

Init ==
    /\ store = <<>>
    /\ lastSave = NoSave
    /\ probe = NoProbe
    /\ now \in StartInstants
    /\ pc = "boot"
    /\ depth = 0
    /\ driver = "None"
    /\ sessions = 0
    /\ scrape_timestamp = Instant(0, 0)
    /\ stocks_data = <<>>
    /\ pending = "none"
    /\ sleep = NoSleep
    /\ run = NoRun

\* schedule_scraper up to the first call of run_and_schedule: setup_database
\* succeeds, or raises and schedule_scraper returns
Boot ==
    /\ pc = "boot"
    /\ \/ pc' = "run_scraper" /\ depth' = 1
       \/ pc' = "no_database" /\ depth' = 0
    /\ UNCHANGED <<store, lastSave, probe, now, driver, sessions,
                   scrape_timestamp, stocks_data, pending, sleep, run>>

\* a run_scraper that does not look at the window
RunScraperNeverSkips(now_pk) == FALSE

\* "if not is_market_open(): return"
RunScraperSkips(now_pk) == ~is_market_open(now_pk)

\* run_scraper up to the try
RunScraperStart ==
    /\ pc = "run_scraper"
    /\ IF RunScraperSkips(now)
       THEN /\ pc' = "after_run"
            /\ run' = [NoRun EXCEPT !.n = run.n + 1, !.startedAt = now,
                                    !.window = "closed", !.outcome = "skipped",
                                    !.storeBefore = store]
            /\ UNCHANGED <<driver, scrape_timestamp, stocks_data>>
       ELSE /\ pc' = "setup_driver"
            /\ driver' = "None"
            /\ scrape_timestamp' = now
            /\ stocks_data' = <<>>
            /\ run' = [NoRun EXCEPT !.n = run.n + 1, !.startedAt = now,
                                    !.window = "open", !.storeBefore = store]
    /\ UNCHANGED <<store, lastSave, probe, now, depth, sessions, pending, sleep>>

\* a handler that catches nothing
RunScraperHandlerMissing(exception) == exception

\* "except Exception as e: logger.error(...)": what is left in flight of an
\* exception raised in the try of run_scraper
RunScraperHandler(exception) ==
    IF exception = "Exception" THEN "none" ELSE exception

\* "driver = setup_driver()": a session, or an exception when both attempts
\* to start the browser fail, or a KeyboardInterrupt
SetupDriver ==
    /\ pc = "setup_driver"
    /\ \/ /\ driver' = "session"
          /\ sessions' = sessions + 1
          /\ run' = [run EXCEPT !.acquired = run.acquired + 1]
          /\ pc' = "extract"
          /\ UNCHANGED pending
       \/ /\ \E exception \in {"Exception", "KeyboardInterrupt"} :
                pending' = RunScraperHandler(exception)
          /\ run' = [run EXCEPT !.outcome = "setup_failed"]
          /\ pc' = "finally"
          /\ UNCHANGED <<driver, sessions>>
    /\ UNCHANGED <<store, lastSave, probe, now, depth, scrape_timestamp,
                   stocks_data, sleep>>

\* a test that sends every result on to save_to_postgresql
HasRecordsAlways(out) == ~out.raised

\* "if stocks_data and len(stocks_data) > 0"
HasRecords(out) == ~out.raised /\ ~out.none /\ Len(out.value) > 0

\* "stocks_data = extract_correct_psx_data(driver)" and the test of its result
Extract ==
    /\ pc = "extract"
    /\ \E seconds \in ExtractSeconds : now' = PlusSeconds(now, seconds)
    /\ \/ \E page \in SchedPages, fault \in SchedExtractFaults :
            \E out \in {extract_correct_psx_data(page, fault)} :
                /\ run' = [run EXCEPT
                            !.extracts = run.extracts + 1,
                            !.primary = out.primary,
                            !.secondary = out.secondary,
                            !.outcome = IF out.raised THEN "extract_failed"
                                        ELSE IF HasRecords(out)
                                        THEN "extracted" ELSE "no_data"]
                /\ stocks_data' = out.value
                /\ pending' = IF out.raised THEN RunScraperHandler("Exception")
                              ELSE "none"
                /\ pc' = IF HasRecords(out) THEN "save" ELSE "finally"
       \/ /\ run' = [run EXCEPT !.extracts = run.extracts + 1,
                                !.outcome = "interrupted"]
          /\ pending' = RunScraperHandler("KeyboardInterrupt")
          /\ pc' = "finally"
          /\ UNCHANGED stocks_data
    /\ UNCHANGED <<store, lastSave, probe, depth, driver, sessions,
                   scrape_timestamp, sleep>>

\* "success = save_to_postgresql(stocks_data, scrape_timestamp)"
Save ==
    /\ pc = "save"
    /\ \/ \E fault \in SchedSaveFaults(stocks_data) :
            \E r \in {save_to_postgresql(store, stocks_data, scrape_timestamp, fault)} :
                /\ store' = r.store
                /\ lastSave' = SaveRecord(lastSave, store, stocks_data,
                                          scrape_timestamp, fault, r)
                /\ run' = [run EXCEPT
                            !.saves = run.saves + 1,
                            !.outcome = CASE r.ret = "True" -> "saved"
                                          [] r.ret = "False" -> "save_failed"
                                          [] OTHER -> "save_raised"]
                /\ pending' = IF r.ret = "raise" THEN RunScraperHandler("Exception")
                              ELSE "none"
       \/ /\ run' = [run EXCEPT !.saves = run.saves + 1, !.outcome = "interrupted"]
          /\ pending' = RunScraperHandler("KeyboardInterrupt")
          /\ UNCHANGED <<store, lastSave>>
    /\ pc' = "finally"
    /\ UNCHANGED <<probe, now, depth, driver, sessions, scrape_timestamp,
                   stocks_data, sleep>>

\* a finally block that does not quit
QuitDriverMissing(drv, open_sessions) == open_sessions

\* "if driver: driver.quit()": the sessions left open
QuitDriver(drv, open_sessions) ==
    IF drv = "session" THEN open_sessions - 1 ELSE open_sessions

\* the finally block of run_scraper, then its return to run_and_schedule, or
\* the exception in flight reaching the handlers of schedule_scraper
Finally ==
    /\ pc = "finally"
    /\ sessions' = QuitDriver(driver, sessions)
    /\ driver' = "None"
    /\ pc' = CASE pending = "none" -> "after_run"
               [] pending = "KeyboardInterrupt" -> "stopped"
               [] OTHER -> "fatal"
    /\ UNCHANGED <<store, lastSave, probe, now, depth, scrape_timestamp,
                   stocks_data, pending, sleep, run>>

\* run_and_schedule after run_scraper: "if is_market_open()"; the closed
\* branch computes next_open and calls time.sleep(wait_seconds)
AfterRun ==
    /\ pc = "after_run"
    /\ IF is_market_open(now)
       THEN /\ pc' = "wait_open"
            /\ sleep' = [branch |-> "open", from |-> now,
                         target |-> get_next_scrape_time(now),
                         until |-> get_next_scrape_time(now)]
       ELSE /\ pc' = "sleeping"
            /\ sleep' = [branch |-> "closed", from |-> now,
                         target |-> NextMarketOpen(now),
                         until |-> NextMarketOpen(now)]
    /\ UNCHANGED <<store, lastSave, probe, now, depth, driver, sessions,
                   scrape_timestamp, stocks_data, pending, run>>

\* an open branch that sleeps until next_time whatever wait_seconds is
WakeTimeUnguarded(now_pk, next_time) == next_time

\* "if wait_seconds > 0: time.sleep(wait_seconds) else:
\* time.sleep(SCRAPE_INTERVAL_MINUTES * 60)": when the sleep ends
WakeTime(now_pk, next_time) ==
    IF Before(now_pk, next_time) THEN next_time
    ELSE PlusSeconds(now_pk, SCRAPE_INTERVAL_MINUTES * SecondsPerMinute)

\* the open branch: wait_seconds = (next_time - datetime.now()).total_seconds();
\* sleep until next_time when it is positive, else for one interval
WaitOpen ==
    /\ pc = "wait_open"
    /\ \E stall \in StallSeconds :
          \E now_pk \in {PlusSeconds(now, stall)}, next_time \in {sleep.target} :
              /\ now' = now_pk
              /\ sleep' = [branch |-> IF Before(now_pk, next_time)
                                      THEN "open" ELSE "interval",
                           from |-> now_pk, target |-> next_time,
                           until |-> WakeTime(now_pk, next_time)]
    /\ pc' = "sleeping"
    /\ UNCHANGED <<store, lastSave, probe, depth, driver, sessions,
                   scrape_timestamp, stocks_data, pending, run>>

\* time.sleep returns and run_and_schedule calls itself: one more frame, or
\* RecursionError, which no frame of run_and_schedule catches and which ends
\* schedule_scraper in its "except Exception"
Wake ==
    /\ pc = "sleeping"
    /\ now' = sleep.until
    /\ IF depth < RecursionLimit
       THEN pc' = "run_scraper" /\ depth' = depth + 1 /\ UNCHANGED pending
       ELSE pc' = "fatal" /\ depth' = 0 /\ pending' = "RecursionError"
    /\ UNCHANGED <<store, lastSave, probe, driver, sessions, scrape_timestamp,
                   stocks_data, sleep, run>>

\* KeyboardInterrupt during time.sleep: "Scraper stopped by user"
InterruptSleep ==
    /\ pc = "sleeping"
    /\ pc' = "stopped"
    /\ pending' = "KeyboardInterrupt"
    /\ depth' = 0
    /\ UNCHANGED <<store, lastSave, probe, now, driver, sessions,
                   scrape_timestamp, stocks_data, sleep, run>>

Next ==
    \/ Boot
    \/ RunScraperStart
    \/ SetupDriver
    \/ Extract
    \/ Save
    \/ Finally
    \/ AfterRun
    \/ WaitOpen
    \/ Wake
    \/ InterruptSleep

Spec == Init /\ [][Next]_vars

(***************************************************************************)
(* SpecClock: get_next_scrape_time and is_market_open read at any instant  *)
(* of the sample clock; probe holds the instant and the result.            *)
(***************************************************************************)
ClockDays == {0, 4, 5, 6}
ClockHours == {9, 15, 23}
ClockSeconds == {0, 30, 59}
ClockMicros == {0, 1, 999999}

ClockInstants ==
    { At(d, h, m, sec, u) :
        d \in ClockDays, h \in ClockHours, m \in 0..59,
        sec \in ClockSeconds, u \in ClockMicros }

InitClock ==
    /\ store = <<>>
    /\ lastSave = NoSave
    /\ probe = NoProbe
    /\ now \in ClockInstants
    /\ pc = "boot"
    /\ depth = 0
    /\ driver = "None"
    /\ sessions = 0
    /\ scrape_timestamp = Instant(0, 0)
    /\ stocks_data = <<>>
    /\ pending = "none"
    /\ sleep = NoSleep
    /\ run = NoRun

ClockCall ==
    /\ probe.op = "none"
    /\ probe' = [op |-> "get_next_scrape_time", in |-> now,
                 out |-> get_next_scrape_time(now)]
    /\ UNCHANGED <<store, lastSave, schedVars>>

\* is_market_open() read at the instant
WindowCall ==
    /\ probe.op = "none"
    /\ probe' = [op |-> "is_market_open", in |-> now, out |-> is_market_open(now)]
    /\ UNCHANGED <<store, lastSave, schedVars>>

NextClock == ClockCall \/ WindowCall

SpecClock == InitClock /\ [][NextClock]_vars

(***************************************************************************)
(* SpecExtract: extract_correct_psx_data called on any sample page with    *)
(* any combination of failures of the browser; probe holds the page, the   *)
(* failures and the outcome.                                               *)
(***************************************************************************)
InitExtract ==
    /\ store = <<>>
    /\ lastSave = NoSave
    /\ probe = NoProbe
    /\ SchedulerIdle

ExtractCall ==
    /\ probe.op = "none"
    /\ \E page \in Pages, fault \in ExtractFaults :
          probe' = [op |-> "extract_correct_psx_data",
                    in |-> [page |-> page, fault |-> fault],
                    out |-> extract_correct_psx_data(page, fault)]
    /\ UNCHANGED <<store, lastSave, schedVars>>

NextExtract == ExtractCall

SpecExtract == InitExtract /\ [][NextExtract]_vars

(***************************************************************************)
(* SpecClean: clean_numeric_value applied to any of the sample cell texts; *)
(* probe holds the text and the result.                                    *)
(***************************************************************************)
MaxTextLen == 3

TextChars == {"1", "0", "-", ".", " ", "x"}

RECURSIVE TextsUpTo(_)
TextsUpTo(n) ==
    IF n = 0 THEN {<<>>}
    ELSE TextsUpTo(n - 1)
         \cup {Append(t, c) : t \in {u \in TextsUpTo(n - 1) : Len(u) = n - 1},
                              c \in TextChars}

\* the cell texts: every text of TextChars up to MaxTextLen, the literal list
\* of the code, and the texts of the sample records
CellTexts ==
    TextsUpTo(MaxTextLen)
    \cup Sentinels
    \cup {r.current : r \in SampleRecords}
    \cup {r.volume : r \in SampleRecords}
    \cup {r.ldcp : r \in SampleRecords}
    \cup {<<"-", "0", ".", "5">>, <<"(", "0", ".", "5", "%", ")">>,
          <<"-", " ", "5">>, <<"-", "-", "-", "-">>, <<"P", "K", "R", "1", "2">>,
          <<"+", "7">>, <<"I", "n", "f", "i", "n", "i", "t", "y">>}

InitClean ==
    /\ store = <<>>
    /\ lastSave = NoSave
    /\ probe \in {[op |-> "none", in |-> t, out |-> <<>>] : t \in CellTexts}
    /\ SchedulerIdle

CleanCall ==
    /\ probe.op = "none"
    /\ probe' = [op |-> "clean_numeric_value", in |-> probe.in,
                 out |-> clean_numeric_value(probe.in)]
    /\ UNCHANGED <<store, lastSave, schedVars>>

NextClean == CleanCall

SpecClean == InitClean /\ [][NextClean]_vars

(***************************************************************************)
(* SpecFilter: the row filters of the two strategies applied to one table  *)
(* row; probe holds the row's cells and what each filter decides.          *)
(***************************************************************************)
\* first-cell texts: ordinary symbols, the words of the two block-lists (alone
\* and inside a longer text), blank and over-long texts
FilterSymbols ==
    {SymAAA, SymBBB, SymLong, <<>>, <<" ">>, [i \in 1..MaxSymbolLen |-> "Y"],
     <<"K", "S", "E", "3", "0">>, <<"P", "S", "X", "A">>, <<"k", "s", "e">>}
    \cup {KwSymbol, KwSector, KwLDCP, KwLast, KwOpen, KwHigh, KwLow, KwCurrent,
          KwChange, KwVolume, KwPSX, KwKSE, KwKSE100}
    \cup {<<"A">> \o kw \o <<"Z">> :
            kw \in {KwSymbol, KwLast, KwOpen, KwHigh, KwLow, KwCurrent,
                    KwChange, KwVolume, KwPSX, KwKSE100}}

FilterCellCounts == {0, 1, 8, 9, 10, 11}

FilterRows ==
    {RowOf(Raw(symbol, Txt100, <<"1">>, Txt100), n, TRUE).td :
        symbol \in FilterSymbols, n \in FilterCellCounts}

InitFilter ==
    /\ store = <<>>
    /\ lastSave = NoSave
    /\ probe \in {[op |-> "none", in |-> cells, out |-> <<>>] : cells \in FilterRows}
    /\ SchedulerIdle

FilterCall ==
    /\ probe.op = "none"
    /\ probe' = [op |-> "row_filter", in |-> probe.in,
                 out |-> [script |-> ScriptKeepsRow(probe.in),
                          manual |-> ManualKeepsRow(probe.in)]]
    /\ UNCHANGED <<store, lastSave, schedVars>>

NextFilter == FilterCall

SpecFilter == InitFilter /\ [][NextFilter]_vars

(***************************************************************************)
(* Properties of the store and of save_to_postgresql (SpecSave)            *)
(***************************************************************************)
RowsAddedByLastSave == Len(store) - Len(lastSave.before)

\* a DECIMAL value v with 0 < v <= MaxPrice
DecimalInPriceRange(d) ==
    /\ d.k = "num"
    /\ ~d.neg
    /\ d.ip > 0 \/ d.c > 0
    /\ d.ip < MaxPrice \/ (d.ip = MaxPrice /\ d.c = 0)

\* C2 (as claimed; the code violates it): every row of the store has a symbol
\* of 1 to 20 characters and a current value that is a finite number with
\* 0 < current <= 100000, whatever text the page put in the current cell.
C2_StoredRowsInRange ==
    \A i \in 1..Len(store) :
        /\ Len(store[i].symbol) >= 1
        /\ Len(store[i].symbol) <= MaxSymbolLen
        /\ DecimalInPriceRange(store[i].current)

\* C3: an invocation with the same scrape_timestamp and the same records as
\* the invocation before it (which met no failure of the store) leaves the
\* store as it was, rows and row count, and ends as the first one did: the
\* conflicting keys are ignored, not duplicated and not an error.
C3_SecondSaveAddsNothing ==
    lastSave.repeats =>
        /\ store = lastSave.before
        /\ lastSave.fault = NoFault =>
              /\ lastSave.ret = lastSave.prevRet
              /\ lastSave.ret # "raise"

C3_Witness ==
    /\ lastSave.repeats
    /\ lastSave.fault = NoFault
    /\ lastSave.ret = "True"
    /\ Len(lastSave.stocks_data) >= 2
    /\ Len(store) >= 2
    /\ lastSave.saved_count >= 2

\* C4 (as claimed; the code violates it): when building or inserting one
\* record's row fails, or the commit fails, none of the invocation's rows is
\* in the store afterwards and the invocation reports the failure (it returns
\* False; an exception leaving it is counted as a report too).
C4_FailureRollsBackAndReportsFalse ==
    (lastSave.buildFailed \/ lastSave.insertFailed \/ lastSave.commitFailed) =>
        /\ store = lastSave.before
        /\ lastSave.ret \in {"False", "raise"}

(***************************************************************************)
(* Properties of run_scraper and schedule_scraper (Spec)                   *)
(***************************************************************************)
\* the positions at which run_scraper is not executing
OutsideRun == {"boot", "no_database", "run_scraper", "after_run", "wait_open",
               "sleeping", "stopped", "fatal"}

\* C1: a session that setup_driver returned is quit before run_scraper
\* returns, whatever the run ends with; no session is open while the
\* scheduler sleeps (or is anywhere outside run_scraper), and at most one
\* session is open at any time.
C1_SessionQuitBeforeReturn ==
    /\ sessions \in {0, 1}
    /\ pc \in OutsideRun => sessions = 0 /\ driver = "None"
    /\ sessions = 1 => driver = "session"

C1_Witness ==
    /\ pc = "sleeping"
    /\ run.acquired = 1
    /\ run.outcome = "save_raised"
    /\ sessions = 0

\* microseconds from a to b
MicrosBetween(a, b) == (b.s - a.s) * 1000000 + (b.u - a.u)

\* nextWindowOpen(now) as the Window Scheduler is specified: the same day's
\* open time on a business day before it, else the next business day's
ClaimedWindowOpen(now_pk) ==
    IF Weekday(now_pk) < 5 /\ Before(now_pk, AtTimeOfDay(now_pk, OpenHour, OpenMinute))
    THEN AtTimeOfDay(now_pk, OpenHour, OpenMinute)
    ELSE NextMarketOpen(now_pk)

\* C5 (as claimed; the code violates it): the closed branch sleeps until
\* nextWindowOpen(now), which is the same day's open time when now is on a
\* business day before the open time.
C5_ClosedSleepTargetsWindowOpen ==
    sleep.branch = "closed" => sleep.until = ClaimedWindowOpen(sleep.from)

\* C6 (as claimed; the code violates it): once the scheduling loop is
\* entered, schedule_scraper ends only by cancellation (KeyboardInterrupt).
C6_LoopEndsOnlyByCancellation ==
    pc \in {"stopped", "fatal"} => pending = "KeyboardInterrupt"

\* the outcomes of a run in which a stage failed
FailedOutcomes == {"setup_failed", "extract_failed", "no_data", "save_failed",
                   "save_raised"}

\* C7: no failure of a stage of run_scraper reaches the scheduler (the only
\* exception that ends the scheduler other than a cancellation is the
\* RecursionError of run_and_schedule); a firing acquires, extracts and saves
\* at most once; and after a failed run the scheduler computes the next
\* firing from the clock alone, as after a successful one.
C7_RunFailureStaysInRun ==
    /\ pc = "fatal" => pending = "RecursionError"
    /\ run.acquired <= 1 /\ run.extracts <= 1 /\ run.saves <= 1
    /\ (run.outcome \in FailedOutcomes /\ pc \in OutsideRun) =>
          /\ pending \in {"none", "KeyboardInterrupt", "RecursionError"}
          /\ pc = "wait_open" =>
                sleep.until = get_next_scrape_time(sleep.from)
          /\ (pc = "sleeping" /\ sleep.branch = "closed") =>
                sleep.until = NextMarketOpen(sleep.from)

C7_Witness ==
    /\ pc = "sleeping"
    /\ sleep.branch = "open"
    /\ run.outcome = "setup_failed"
    /\ run.n = 2
    /\ pending = "none"

\* C8: a run that starts while the market is closed is skipped: it acquires
\* no session, extracts nothing and leaves the store as it was; a session is
\* held and the store is changed only by a run that started in the window.
C8_ClosedRunDoesNothing ==
    (run.n > 0 /\ ~is_market_open(run.startedAt)) =>
        /\ run.outcome = "skipped"
        /\ run.acquired = 0 /\ run.extracts = 0 /\ run.saves = 0
        /\ store = run.storeBefore
        /\ driver = "None" /\ sessions = 0

C8_Witness ==
    /\ run.n >= 2
    /\ ~is_market_open(run.startedAt)
    /\ run.outcome = "skipped"
    /\ Len(store) > 0
    /\ pc = "after_run"

(***************************************************************************)
(* Properties of extract_correct_psx_data (SpecExtract)                    *)
(***************************************************************************)
\* C9: extract_correct_psx_data never raises and never returns None; when
\* the script strategy raises and the manual strategy raises too, it returns
\* the empty sequence.
C9_ExtractAlwaysReturnsSequence ==
    probe.op = "extract_correct_psx_data" =>
        /\ ~probe.out.raised
        /\ ~probe.out.none
        /\ (probe.out.primary # "records" /\ probe.out.secondaryFailed) =>
              probe.out.value = <<>>

C9_Witness ==
    /\ probe.op = "extract_correct_psx_data"
    /\ probe.in.fault.script = "raise"
    /\ probe.in.fault.rows
    /\ Len(probe.in.page) > 0
    /\ probe.out.primary = "raised"
    /\ probe.out.secondaryFailed
    /\ probe.out.value = <<>>

(***************************************************************************)
(* Properties of get_next_scrape_time (SpecClock)                          *)
(***************************************************************************)
\* C10: the result is strictly later than now and at most 5 minutes later,
\* its seconds and microseconds are zero, its minute is a multiple of 5, and
\* for now exactly on a 5-minute boundary it is exactly 5 minutes later.
C10_NextTimeAligned ==
    probe.op = "get_next_scrape_time" =>
        /\ Before(probe.in, probe.out)
        /\ MicrosBetween(probe.in, probe.out)
              <= SCRAPE_INTERVAL_MINUTES * SecondsPerMinute * 1000000
        /\ probe.out.u = 0
        /\ SecondOfMinute(probe.out) = 0
        /\ MinuteOfHour(probe.out) % SCRAPE_INTERVAL_MINUTES = 0
        /\ (/\ probe.in.u = 0
            /\ SecondOfMinute(probe.in) = 0
            /\ MinuteOfHour(probe.in) % SCRAPE_INTERVAL_MINUTES = 0) =>
              probe.out = PlusSeconds(probe.in, SCRAPE_INTERVAL_MINUTES * SecondsPerMinute)

C10_Witness ==
    /\ probe.op = "get_next_scrape_time"
    /\ probe.in = At(4, 15, 55, 0, 0)
    /\ probe.out = At(4, 16, 0, 0, 0)

\* seconds since midnight of the instant's day
SecondOfDay(a) == a.s % 86400

\* C11: is_market_open is false at every instant of a Saturday or Sunday;
\* on Monday to Friday it is true exactly when 09:30:00 <= now <= 15:30:00
\* of that day, both bounds included.
C11_WindowOpenExactly ==
    probe.op = "is_market_open" =>
        probe.out =
            (/\ (probe.in.s \div 86400) % 7 \in 0..4
             /\ SecondOfDay(probe.in) >= 9 * 3600 + 30 * 60
             /\ \/ SecondOfDay(probe.in) < 15 * 3600 + 30 * 60
                \/ SecondOfDay(probe.in) = 15 * 3600 + 30 * 60 /\ probe.in.u = 0)

C11_Witness ==
    /\ probe.op = "is_market_open"
    /\ probe.in = At(5, 15, 30, 0, 0)
    /\ probe.out = FALSE

\* the rows a run has added to the store
RowsAddedByRun == SubSeq(store, Len(run.storeBefore) + 1, Len(store))

\* the symbols and current texts of the extracted records
SymbolsOf(items) == [i \in 1..Len(items) |-> items[i].symbol]
CurrentsOf(items) == [i \in 1..Len(items) |-> items[i].current]

\* the run of the scenario: the script strategy returned an empty sequence,
\* the manual strategy returned AAA, BBB, CCC with current "100", "250.5",
\* "0", and save_to_postgresql returned True
FallbackScenario ==
    /\ run.primary = "empty"
    /\ run.secondary = 1
    /\ SymbolsOf(stocks_data) = <<SymAAA, SymBBB, SymCCC>>
    /\ CurrentsOf(stocks_data) = <<Txt100, Txt250p5, <<"0">> >>
    /\ run.outcome = "saved"

\* C12: in that run exactly two rows, AAA and BBB, are added to the store,
\* both with the scrape_timestamp taken at the start of the run; CCC is not
\* stored.
C12_FallbackRunStoresTwoRows ==
    FallbackScenario =>
        /\ SubSeq(store, 1, Len(run.storeBefore)) = run.storeBefore
        /\ SymbolsOf(RowsAddedByRun) = <<SymAAA, SymBBB>>
        /\ scrape_timestamp = run.startedAt
        /\ \A i \in 1..Len(RowsAddedByRun) :
              RowsAddedByRun[i].scrape_timestamp = run.startedAt
        /\ \A i \in 1..Len(store) : store[i].symbol = SymCCC =>
              store[i].scrape_timestamp # run.startedAt

C12_Witness ==
    /\ FallbackScenario
    /\ run.n = 2
    /\ Len(run.storeBefore) > 0
    /\ Len(store) = Len(run.storeBefore) + 2
    /\ pc = "finally"

\* a row without its scrape_timestamp
Undated(r) == [r EXCEPT !.scrape_timestamp = Instant(0, 0)]

\* a run whose save_to_postgresql returned True and met no failing INSERT
SavedRun == run.outcome = "saved" /\ ~lastSave.insertFailed

\* C13: the rows of a run are stored under its own scrape_timestamp, which no
\* row of an earlier run carries, and are not suppressed by the rows of
\* earlier runs: every extracted record that passes validation has its row
\* among the rows the run added, and a symbol that occurs several times in
\* the extracted data has one row.
C13_RunsKeepOwnRows ==
    SavedRun =>
        /\ \A i \in 1..Len(run.storeBefore) :
              run.storeBefore[i].scrape_timestamp # scrape_timestamp
        /\ \A i \in 1..Len(RowsAddedByRun) :
              RowsAddedByRun[i].scrape_timestamp = scrape_timestamp
        /\ \A i, j \in 1..Len(RowsAddedByRun) :
              RowsAddedByRun[i].symbol = RowsAddedByRun[j].symbol => i = j
        /\ \A k \in 1..Len(stocks_data) :
              (Normalize(stocks_data[k]).valid /\ Normalize(stocks_data[k]).built) =>
                 \E i \in 1..Len(RowsAddedByRun) :
                     RowsAddedByRun[i].symbol = stocks_data[k].symbol

\* the second of two consecutive firings that stored the same data, the
\* extracted data holding one symbol twice
C13_Witness ==
    /\ SavedRun
    /\ run.n = 2
    /\ Len(run.storeBefore) > 0
    /\ [i \in 1..Len(run.storeBefore) |-> Undated(run.storeBefore[i])]
          = [i \in 1..Len(RowsAddedByRun) |-> Undated(RowsAddedByRun[i])]
    /\ \E k, l \in 1..Len(stocks_data) :
          k # l /\ stocks_data[k].symbol = stocks_data[l].symbol
    /\ Len(RowsAddedByRun) < Len(stocks_data)

\* the first record of items with the symbol that passes validation and
\* whose row tuple can be built
Writes(items, k, symbol) ==
    /\ items[k].symbol = symbol
    /\ Normalize(items[k]).valid
    /\ Normalize(items[k]).built

FirstWrite(items, symbol) ==
    CHOOSE k \in 1..Len(items) :
        Writes(items, k, symbol) /\ \A j \in 1..(k - 1) : ~Writes(items, j, symbol)

\* C14: the store holds at most one row per (scrape_timestamp, symbol); an
\* invocation leaves every row that was in the store as it was, and the row
\* it adds for a key is the row of the first record written with that key.
C14_OneRowPerKeyFirstWins ==
    /\ \A i, j \in 1..Len(store) : SameKey(store[i], store[j]) => i = j
    /\ Len(store) >= Len(lastSave.before)
    /\ SubSeq(store, 1, Len(lastSave.before)) = lastSave.before
    /\ \A i \in (Len(lastSave.before) + 1)..Len(store) :
          /\ store[i].scrape_timestamp = lastSave.scrape_timestamp
          /\ Undated(store[i]) =
                Normalize(lastSave.stocks_data[
                    FirstWrite(lastSave.stocks_data, store[i].symbol)]).row

\* a second invocation writes another record under a key the store holds
C14_Witness ==
    /\ lastSave.n = 2
    /\ lastSave.stocks_data = <<RecAAA, RecAAAb>>
    /\ lastSave.ret = "True"
    /\ lastSave.saved_count = 2
    /\ store = lastSave.before
    /\ \E i \in 1..Len(store) :
          /\ store[i].symbol = SymAAA
          /\ store[i].scrape_timestamp = lastSave.scrape_timestamp
          /\ Undated(store[i]) = Normalize(RecAAAb).row

(***************************************************************************)
(* Properties of clean_numeric_value (SpecClean)                           *)
(***************************************************************************)
\* the sentinel inputs the Record Normalizer is specified with
ClaimedSentinels ==
    { <<>>, <<"-">>, <<"N", "/", "A">>, <<"N", "A", "N">>,
      <<"N", "U", "L", "L">>, <<"N", "/", "S">>, <<" ">> }

\* what is left of a text after the markers are removed
CleanedRemainder(t) == SignNormalized(StripMarkers(Strip(t)))

\* C15: clean_numeric_value never raises (it returns a text that float()
\* accepts); it returns "0" for every sentinel input and for every text
\* whose cleaned remainder float() does not accept.
C15_CleanIsTotal ==
    probe.op = "clean_numeric_value" =>
        /\ ParseFloat(probe.out).k # "err"
        /\ probe.in \in ClaimedSentinels => probe.out = <<"0">>
        /\ ParseFloat(CleanedRemainder(probe.in)).k = "err" => probe.out = <<"0">>

C15_Witness ==
    /\ probe.op = "clean_numeric_value"
    /\ probe.in = <<"1", "-", "x">>
    /\ ParseFloat(CleanedRemainder(probe.in)).k = "err"
    /\ probe.out = <<"0">>

(***************************************************************************)
(* More properties of run_scraper and schedule_scraper (Spec)              *)
(***************************************************************************)
\* C16: a run whose extraction yielded zero records does not call
\* save_to_postgresql (no connection to the store is opened) and leaves the
\* store as it was.
C16_NoRecordsNoSave ==
    (run.extracts = 1 /\ stocks_data = <<>>) =>
        /\ pc # "save"
        /\ run.saves = 0
        /\ store = run.storeBefore

C16_Witness ==
    /\ run.n = 2
    /\ run.extracts = 1
    /\ run.outcome = "no_data"
    /\ stocks_data = <<>>
    /\ Len(store) > 0
    /\ pc = "sleeping"

(***************************************************************************)
(* More properties of the Extraction Chain (SpecExtract, SpecFilter)       *)
(***************************************************************************)
\* C17: the manual strategy runs exactly when the script strategy raised or
\* yielded no record (a null result counts as none), and then once; its run
\* is a consequence of how the script strategy ended.  When the script
\* strategy yields a record, its records are returned as they are and the
\* manual strategy does not run.
C17_ManualOnlyAsFallback ==
    probe.op = "extract_correct_psx_data" =>
        /\ probe.out.secondary \in {0, 1}
        /\ probe.out.secondary = 1 <=> probe.out.primary \in {"raised", "empty"}
        /\ probe.out.primary = "records" =>
              /\ probe.out.value = ScriptResult(probe.in.page)
              /\ probe.out.value # <<>>
              /\ probe.out.secondary = 0

C17_Witness ==
    /\ probe.op = "extract_correct_psx_data"
    /\ probe.in.page = PageNoisy
    /\ probe.in.fault.wait2
    /\ probe.out.primary = "records"
    /\ probe.out.secondary = 0
    /\ Len(probe.out.value) = 5

\* C18 (as claimed; the code violates it): a table body row is kept by the
\* script strategy if and only if it is kept by the manual strategy.
C18_SameRowFilter ==
    probe.op = "row_filter" => probe.out.script = probe.out.manual

\* C19: every sleep of the scheduler lasts a positive time; when the
\* duration computed from the target (next_time, next_open) is zero or
\* negative, the sleep lasts one interval of SCRAPE_INTERVAL_MINUTES, else it
\* lasts until the target; the scheduler then sleeps in both branches.
C19_SleepIsPositive ==
    pc = "sleeping" =>
        /\ sleep.branch \in {"open", "interval", "closed"}
        /\ Before(sleep.from, sleep.until)
        /\ IF Before(sleep.from, sleep.target)
           THEN sleep.until = sleep.target
           ELSE MicrosBetween(sleep.from, sleep.until)
                   = SCRAPE_INTERVAL_MINUTES * 60 * 1000000

\* the process was held up past next_time: the computed duration is negative
C19_Witness ==
    /\ pc = "sleeping"
    /\ sleep.branch = "interval"
    /\ Before(sleep.target, sleep.from)
    /\ sleep.until = PlusSeconds(sleep.from, 300)

(***************************************************************************)
(* More properties of the store (SpecSave)                                 *)
(***************************************************************************)
\* C20 (as claimed; the code violates it): every row of the store has a
\* volume that is a non-negative integer, whatever the volume text of a
\* record that passes validation.
C20_StoredVolumeNonNegative ==
    \A i \in 1..Len(store) : store[i].volume \in Nat

(***************************************************************************)
(* The closed branch of run_and_schedule (Spec)                            *)
(***************************************************************************)
\* C21: the instant at which the sleep of the closed branch ends is strictly
\* later than now, lies on Monday to Friday and is 09:30:00.000000 of its
\* day, and the window check made at that instant, when run_and_schedule
\* calls run_scraper again, finds the window open.
C21_ClosedSleepEndsAtOpen ==
    sleep.branch = "closed" =>
        /\ Before(sleep.from, sleep.until)
        /\ (sleep.until.s \div 86400) % 7 \in 0..4
        /\ SecondOfDay(sleep.until) = 9 * 3600 + 30 * 60
        /\ sleep.until.u = 0
        /\ is_market_open(sleep.until)
        /\ pc = "run_scraper" => now = sleep.until /\ ~RunScraperSkips(now)

\* a sleep that began on a Friday has ended on the Monday after it
C21_Witness ==
    /\ sleep.branch = "closed"
    /\ Weekday(sleep.from) = 4
    /\ Weekday(sleep.until) = 0
    /\ pc = "setup_driver"
    /\ run.startedAt = sleep.until
    /\ run.window = "open"

(***************************************************************************)
(* The count reported by save_to_postgresql (SpecSave)                     *)
(***************************************************************************)
\* C22: the saved count that an invocation of save_to_postgresql reports
\* equals the number of rows that the invocation added to the table, also
\* when a symbol occurs twice in the batch or when the key is stored already.
C22_SavedCountIsRowsAdded ==
    (lastSave.n > 0 /\ lastSave.ret = "True") =>
        lastSave.saved_count = RowsAddedByLastSave

====
